---- MODULE Spec2Model ----
(***************************************************************************)
(* Honeypot orchestration layer: HoneypotManager (honeypots/manager.py).   *)
(* The manager owns a registry of decoy instances (self.honeypots), a      *)
(* configuration store (self.config) and drives start/stop of the          *)
(* instances as asyncio coroutines and tasks on one event loop.            *)
(*                                                                         *)
(* Synchronous methods are one atomic action each.  A coroutine method is  *)
(* one action per stretch of code between two suspension points.           *)
(*                                                                         *)
(* The React frontend (AlertDashboard, HoneypotDashboard) polls the        *)
(* backend; a component is its useState values, and each of its handlers   *)
(* and each completion of a request is one action.                         *)
(***************************************************************************)
EXTENDS Integers, Sequences, FiniteSets, TLC

\* ------------------------------------------------------------------ bounds
MaxObjs == 2          \* decoy objects alive at the same time
NumCallers == 2       \* coroutine calls of the manager in flight at once
MaxDefs == 2          \* definitions in a configuration document
MaxFetches == 2       \* requests of one dashboard waiting for their response
MaxAlerts == 2        \* alerts in one response of GET /alerts

\* ------------------------------------------------------------- value sets
Ids == {"ssh-honeypot-1", "web-honeypot-1"}

NoRef == 0
Refs == 1..MaxObjs
Callers == 1..NumCallers
Detached == 0         \* owner of a task nobody awaits (remove_honeypot)

SshArgs == [type |-> "SSH", ip |-> "0.0.0.0", port |-> 2222,
            options |-> {<<"banner", "SSH-2.0-OpenSSH_8.2p1 Ubuntu-4ubuntu0.5">>}]
WebArgs == [type |-> "Web", ip |-> "0.0.0.0", port |-> 8080,
            options |-> {<<"server_type", "Apache/2.4.41 (Ubuntu)">>}]
AltArgs == [type |-> "ssh", ip |-> "0.0.0.0", port |-> 2223, options |-> {}]
FtpArgs == [type |-> "FTP", ip |-> "127.0.0.1", port |-> 21, options |-> {}]

\* the argument tuples a caller passes to create_honeypot
ArgSets == {SshArgs, FtpArgs}

\* str.upper() on the type tags in use
Upper(t) ==
  CASE t = "ssh" -> "SSH"
    [] t = "Web" -> "WEB"
    [] t = "web" -> "WEB"
    [] OTHER -> t

MkDef(id, a) ==
  [id |-> id, type |-> a.type, ip |-> a.ip, port |-> a.port, options |-> a.options]

\* self.config: the object yaml.safe_load returned (isMap = FALSE when it is
\* not a mapping, e.g. None for an empty document) and its "honeypots" list
MkConfig(defs) == [isMap |-> TRUE, honeypots |-> defs]
NotAMapping == [isMap |-> FALSE, honeypots |-> <<>>]

\* the built-in definitions on the privileged ports 22 and 80
DefaultConfig_ports_22_80 ==
  MkConfig(<<MkDef("ssh-honeypot-1", [SshArgs EXCEPT !.port = 22]),
             MkDef("web-honeypot-1", [WebArgs EXCEPT !.port = 80])>>)
\* the configuration __init__ builds when it loads no file
DefaultConfig ==
  MkConfig(<< MkDef("ssh-honeypot-1", SshArgs), MkDef("web-honeypot-1", WebArgs) >>)

EmptyConfig == MkConfig(<<>>)

\* a slot of the object heap that holds no decoy object
FreeObj == [cls |-> "-", id |-> "-", ip |-> "-", port |-> 0, options |-> {},
            status |-> "-"]

\* SSHHoneypot(id, ip, port, **options) / WebHoneypot(...): a new decoy
\* object, not listening yet
NewObj(cls, id, a) ==
  [cls |-> cls, id |-> id, ip |-> a.ip, port |-> a.port, options |-> a.options,
   status |-> "Inactive"]

\* ------------------------------------------------------------------- files
\* the text yaml.dump writes for a configuration, and what yaml.safe_load
\* reads back from a text
Absent == [kind |-> "absent", top |-> "-", items |-> <<>>]
Garbage == [kind |-> "garbage", top |-> "-", items |-> <<>>]
Truncated == [kind |-> "text", top |-> "empty", items |-> <<>>]

\* yaml.dump of a definition: its keys in sorted order with their values
\* (DumpDef_without_options writes an empty options mapping instead)
DumpDef_without_options(d) ==
  << <<"id", d.id>>, <<"ip", d.ip>>, <<"options", {}>>, <<"port", d.port>>,
     <<"type", d.type>> >>
DumpDef(d) ==
  << <<"id", d.id>>, <<"ip", d.ip>>, <<"options", d.options>>,
     <<"port", d.port>>, <<"type", d.type>> >>

LoadDef(t) ==
  [id |-> t[1][2], type |-> t[5][2], ip |-> t[2][2], port |-> t[4][2],
   options |-> t[3][2]]

YamlDump(cfg) ==
  IF cfg.isMap
    THEN [kind |-> "text", top |-> "mapping",
          items |-> [i \in 1..Len(cfg.honeypots) |-> DumpDef(cfg.honeypots[i])]]
    ELSE [kind |-> "text", top |-> "null", items |-> <<>>]

YamlLoad(f) ==
  IF f.top = "mapping"
    THEN MkConfig([i \in 1..Len(f.items) |-> LoadDef(f.items[i])])
    ELSE NotAMapping

\* definitions found in the configuration documents that exist beside the
\* manager's own save destination
DocDefs == {MkDef("ssh-honeypot-1", AltArgs), MkDef("web-honeypot-1", FtpArgs)}

SeqsUpTo(S, n) == UNION {[1..k -> S] : k \in 0..n}

\* read-only configuration files a caller may name in load_config
ReadOnlyFiles ==
  {Absent, Garbage, Truncated} \cup {YamlDump(MkConfig(s)) : s \in SeqsUpTo(DocDefs, MaxDefs)}

\* ------------------------------------------------------------------- state
VARIABLES
  honeypots,   \* self.honeypots: id -> reference of the decoy object, NoRef = absent
  heap,        \* the decoy objects by reference
  config,      \* self.config
  running,     \* self.running
  disk,        \* content of the file save_config writes
  calls,       \* the coroutine calls of the manager in flight, per caller
  tasks,       \* asyncio tasks wrapping honeypot.start() / honeypot.stop()
  lastOp,      \* the method call that just returned: its result and log entry
  seq,         \* the caller's script: its phase, the ids registered when its
               \* start_all began and the ids whose constructor raises in it
  alertDashboard,    \* the AlertDashboard component: its useState values and
                     \* the calls of fetchAlerts waiting for their response
  honeypotDashboard  \* the HoneypotDashboard component, likewise

vars == <<honeypots, heap, config, running, disk, calls, tasks, lastOp, seq,
          alertDashboard, honeypotDashboard>>

\* the state of the manager, which no handler of the frontend touches
manager == <<honeypots, heap, config, running, disk, calls, tasks, lastOp, seq>>

\* useState(null)
Null == "null"

\* AlertDashboard after its first render: useState([]), useState(true),
\* useState(null), useState(null); the mount effect has not run yet
AlertDashboardMounted ==
  [alerts |-> <<>>, loading |-> TRUE, error |-> Null, lastRefresh |-> Null, pending |-> 0]

\* HoneypotDashboard after its first render
HoneypotDashboardMounted ==
  [honeypots |-> <<>>, loading |-> TRUE, error |-> Null, pending |-> 0]

NoScript == [phase |-> "setup", present |-> {}, fails |-> {}]
IdleCall == [op |-> "-", id |-> "-", pc |-> "idle", obj |-> NoRef]
NoOp == [op |-> "-", id |-> "-", ret |-> "-", ref |-> NoRef, log |-> "-"]

\* a method call returned ret (or raised) to its caller, after logging at
\* level log
Returned(op, id, ret, log) ==
  [op |-> op, id |-> id, ret |-> ret, ref |-> NoRef, log |-> log]

MkTask(owner, r, kind) == [owner |-> owner, obj |-> r, kind |-> kind, st |-> "running"]

Min(S) == CHOOSE x \in S : \A y \in S : x <= y

FreeRefs(hs) == {r \in Refs : hs[r] = FreeObj}

\* a decoy object lives as long as the registry, a task or a suspended call
\* refers to it
Referenced(r, hp, ts, cs) ==
  \/ \E id \in Ids : hp[id] = r
  \/ \E t \in ts : t.obj = r
  \/ \E c \in Callers : cs[c].obj = r

Collect(hs, hp, ts, cs) ==
  [r \in Refs |-> IF Referenced(r, hp, ts, cs) THEN hs[r] ELSE FreeObj]

HasDef(cfg, id) == \E i \in 1..Len(cfg.honeypots) : cfg.honeypots[i].id = id

\* ----------------------------------------------------- decoy service handle
\* honeypot.start(): suspends until listening or fails
HandleStart(o, raises) == IF raises THEN o ELSE [o EXCEPT !.status = "Active"]

\* honeypot.stop(): suspends until released or fails
HandleStop(o, raises) == IF raises THEN o ELSE [o EXCEPT !.status = "Inactive"]

\* ------------------------------------------------------------- constructor
\* load_config falling back to the built-in definitions when it fails
load_config_falls_back_to_defaults(f) ==
  IF f.kind = "text" THEN YamlLoad(f) ELSE DefaultConfig
\* load_config: open() or yaml.safe_load() raising leaves {"honeypots": []},
\* otherwise self.config is whatever safe_load returned
load_config(f) == IF f.kind = "text" THEN YamlLoad(f) ELSE EmptyConfig

\* __init__ with a config_file that exists: load_config(config_file)
FileConfigs == {load_config(f) : f \in ReadOnlyFiles \ {Absent}}

\* __init__ for a given self.config
Constructed(cfg) ==
  /\ honeypots = [id \in Ids |-> NoRef]
  /\ heap = [r \in Refs |-> FreeObj]
  /\ config = cfg
  /\ running = FALSE
  /\ disk = Absent
  /\ calls = [c \in Callers |-> IdleCall]
  /\ tasks = {}
  /\ lastOp = NoOp
  /\ seq = NoScript
  /\ alertDashboard = AlertDashboardMounted
  /\ honeypotDashboard = HoneypotDashboardMounted

\* HoneypotManager(): no config_file, or one that does not exist
Init == Constructed(DefaultConfig)

\* HoneypotManager(config_file) for a file that exists
InitFile == \E cfg \in FileConfigs : Constructed(cfg)

\* self.config when __init__(config_file) returns; f is what config_file
\* names, Absent when config_file is None or os.path.exists is false
ManagerInit(f) == IF f.kind = "absent" THEN DefaultConfig ELSE load_config(f)

\* HoneypotManager(config_file) over every content of the file, which stays
\* on disk
InitFrom ==
  \E f \in ReadOnlyFiles :
    /\ honeypots = [i \in Ids |-> NoRef]
    /\ heap = [r \in Refs |-> FreeObj]
    /\ config = ManagerInit(f)
    /\ running = FALSE
    /\ disk = f
    /\ calls = [c \in Callers |-> IdleCall]
    /\ tasks = {}
    /\ lastOp = NoOp
    /\ seq = NoScript
    /\ alertDashboard = AlertDashboardMounted
    /\ honeypotDashboard = HoneypotDashboardMounted

\* ------------------------------------------------------ synchronous methods
\* create_honeypot without its "already exists" return: the registered object
\* is rebuilt from the arguments of the second call
create_honeypot_overwrite(hp, hs, cfg, id, a, ctorRaises) ==
  IF Upper(a.type) \notin {"SSH", "WEB"} \/ ctorRaises
    THEN [honeypots |-> hp, heap |-> hs, config |-> cfg, ret |-> "none", ref |-> NoRef,
          log |-> "error"]
  ELSE
    LET r == IF hp[id] # NoRef THEN hp[id] ELSE Min(FreeRefs(hs))
        hp2 == [hp EXCEPT ![id] = r]
        hs2 == [hs EXCEPT ![r] = NewObj(Upper(a.type), id, a)]
    IN IF ~cfg.isMap
         THEN [honeypots |-> hp2, heap |-> hs2, config |-> cfg, ret |-> "none",
               ref |-> NoRef, log |-> "error"]
         ELSE [honeypots |-> hp2, heap |-> hs2,
               config |-> IF HasDef(cfg, id) THEN cfg
                          ELSE MkConfig(Append(cfg.honeypots, MkDef(id, a))),
               ret |-> "obj", ref |-> r, log |-> "info"]

\* create_honeypot appending a definition whether or not the id has one
create_honeypot_always_appends(hp, hs, cfg, id, a, ctorRaises) ==
  IF hp[id] # NoRef
    THEN [honeypots |-> hp, heap |-> hs, config |-> cfg, ret |-> "obj", ref |-> hp[id],
          log |-> "warning"]
  ELSE IF Upper(a.type) \notin {"SSH", "WEB"} \/ ctorRaises \/ ~cfg.isMap
    THEN [honeypots |-> hp, heap |-> hs, config |-> cfg, ret |-> "none", ref |-> NoRef,
          log |-> "error"]
  ELSE
    LET r == Min(FreeRefs(hs))
    IN [honeypots |-> [hp EXCEPT ![id] = r],
        heap |-> [hs EXCEPT ![r] = NewObj(Upper(a.type), id, a)],
        config |-> MkConfig(Append(cfg.honeypots, MkDef(id, a))),
        ret |-> "obj", ref |-> r, log |-> "info"]

\* create_honeypot constructing an SSH decoy for a type it does not know
create_honeypot_any_type(hp, hs, cfg, id, a, ctorRaises) ==
  IF hp[id] # NoRef
    THEN [honeypots |-> hp, heap |-> hs, config |-> cfg, ret |-> "obj", ref |-> hp[id],
          log |-> "warning"]
  ELSE IF ctorRaises \/ FreeRefs(hs) = {} \/ ~cfg.isMap
    THEN [honeypots |-> hp, heap |-> hs, config |-> cfg, ret |-> "none", ref |-> NoRef,
          log |-> "error"]
  ELSE
    LET r == Min(FreeRefs(hs))
    IN [honeypots |-> [hp EXCEPT ![id] = r],
        heap |-> [hs EXCEPT ![r] = NewObj("SSH", id, a)],
        config |-> IF HasDef(cfg, id) THEN cfg
                   ELSE MkConfig(Append(cfg.honeypots, MkDef(id, a))),
        ret |-> "obj", ref |-> r, log |-> "info"]

\* create_honeypot: the registry, heap and configuration it leaves and the
\* value it returns ("obj" with the reference, or "none")
create_honeypot(hp, hs, cfg, id, a, ctorRaises) ==
  IF hp[id] # NoRef
    THEN [honeypots |-> hp, heap |-> hs, config |-> cfg, ret |-> "obj", ref |-> hp[id],
          log |-> "warning"]
  ELSE IF Upper(a.type) \notin {"SSH", "WEB"}
    \* logger.error("Unsupported honeypot type: ...") and return None
    THEN [honeypots |-> hp, heap |-> hs, config |-> cfg, ret |-> "none", ref |-> NoRef,
          log |-> "unsupported"]
  ELSE IF ctorRaises
    THEN [honeypots |-> hp, heap |-> hs, config |-> cfg, ret |-> "none", ref |-> NoRef,
          log |-> "error"]
  ELSE
    LET r == Min(FreeRefs(hs))
        hp2 == [hp EXCEPT ![id] = r]
        hs2 == [hs EXCEPT ![r] = NewObj(Upper(a.type), id, a)]
    IN IF ~cfg.isMap
         \* self.config.get raises AttributeError after the registry insert
         THEN [honeypots |-> hp2, heap |-> hs2, config |-> cfg, ret |-> "none",
               ref |-> NoRef, log |-> "error"]
         ELSE [honeypots |-> hp2, heap |-> hs2,
               config |-> IF HasDef(cfg, id) THEN cfg
                          ELSE MkConfig(Append(cfg.honeypots, MkDef(id, a))),
               ret |-> "obj", ref |-> r, log |-> "info"]

\* the call needs a heap slot only when it constructs an object
CanCreate(hp, hs, id, a, ctorRaises) ==
  \/ hp[id] # NoRef
  \/ Upper(a.type) \notin {"SSH", "WEB"}
  \/ ctorRaises
  \/ FreeRefs(hs) # {}

CreateHoneypot(id, a, ctorRaises) ==
  /\ CanCreate(honeypots, heap, id, a, ctorRaises)
  /\ LET res == create_honeypot(honeypots, heap, config, id, a, ctorRaises)
     IN /\ honeypots' = res.honeypots
        /\ heap' = res.heap
        /\ config' = res.config
        /\ lastOp' = [Returned("create_honeypot", id, res.ret, res.log)
                        EXCEPT !.ref = res.ref]
  /\ UNCHANGED <<running, disk, calls, tasks, seq, alertDashboard, honeypotDashboard>>

\* remove_honeypot(id); inLoop: the caller runs inside a running event loop
\* remove_honeypot dropping the definition of an id that is not registered
NotFound_drops_definition(hp, cfg, ts, id) ==
  [honeypots |-> hp,
   config |-> IF cfg.isMap
                THEN MkConfig(SelectSeq(cfg.honeypots, LAMBDA h : h.id # id))
                ELSE cfg,
   tasks |-> ts, ret |-> "false", log |-> "warning"]

\* remove_honeypot for an id that is not registered: a warning and False
NotFound(hp, cfg, ts, id) ==
  [honeypots |-> hp, config |-> cfg, tasks |-> ts, ret |-> "false", log |-> "warning"]

remove_honeypot(hp, hs, cfg, ts, id, inLoop) ==
  IF hp[id] = NoRef
    THEN NotFound(hp, cfg, ts, id)
  ELSE IF hs[hp[id]].status = "Active" /\ ~inLoop
    \* asyncio.create_task raises RuntimeError: no running event loop
    THEN [honeypots |-> hp, config |-> cfg, tasks |-> ts, ret |-> "false",
          log |-> "error"]
  ELSE
    LET ts2 == IF hs[hp[id]].status = "Active"
                 THEN ts \cup {MkTask(Detached, hp[id], "stop")} ELSE ts
        hp2 == [hp EXCEPT ![id] = NoRef]
    IN IF ~cfg.isMap
         \* self.config.get raises AttributeError after the del
         THEN [honeypots |-> hp2, config |-> cfg, tasks |-> ts2, ret |-> "false",
               log |-> "error"]
         ELSE [honeypots |-> hp2,
               config |-> MkConfig(SelectSeq(cfg.honeypots, LAMBDA h : h.id # id)),
               tasks |-> ts2, ret |-> "true", log |-> "info"]

RemoveHoneypot(id, inLoop) ==
  /\ LET res == remove_honeypot(honeypots, heap, config, tasks, id, inLoop)
     IN /\ honeypots' = res.honeypots
        /\ config' = res.config
        /\ tasks' = res.tasks
        /\ heap' = Collect(heap, res.honeypots, res.tasks, calls)
        /\ lastOp' = Returned("remove_honeypot", id, res.ret, res.log)
  /\ UNCHANGED <<running, disk, calls, seq, alertDashboard, honeypotDashboard>>

LoadConfig(f) ==
  /\ config' = load_config(f)
  /\ lastOp' = Returned("load_config", "-", "none",
                        IF f.kind = "text" THEN "info" ELSE "error")
  /\ UNCHANGED <<honeypots, heap, running, disk, calls, tasks, seq, alertDashboard, honeypotDashboard>>

\* save_config: open(config_file, 'w') truncates the file, yaml.dump then
\* streams the document into it; either may raise, which is logged
save_config(cfg, old, outcome) ==
  CASE outcome = "ok" -> YamlDump(cfg)
    [] outcome = "open_fails" -> old
    [] outcome = "dump_fails_empty" -> Truncated
    [] outcome = "dump_fails_partial" -> Garbage

SaveOutcomes == {"ok", "open_fails", "dump_fails_empty", "dump_fails_partial"}

SaveConfig(outcome) ==
  /\ disk' = save_config(config, disk, outcome)
  /\ lastOp' = Returned("save_config", "-", "none",
                        IF outcome = "ok" THEN "info" ELSE "error")
  /\ UNCHANGED <<honeypots, heap, config, running, calls, tasks, seq, alertDashboard, honeypotDashboard>>

\* get_honeypot(id): self.honeypots.get(id), None for a key that is not there
get_honeypot(hp, id) == IF id \in DOMAIN hp THEN hp[id] ELSE NoRef

\* honeypot.get_status(): the snapshot a decoy reports of itself
get_status(o) ==
  [id |-> o.id, type |-> o.cls, ip |-> o.ip, port |-> o.port, status |-> o.status]

NoSnapshot == [id |-> "-", type |-> "-", ip |-> "-", port |-> 0, status |-> "-"]

\* the arguments of get_honeypot_status: <<>> when honeypot_id is left at its
\* default None, <<id>> when an id is passed
StatusArgs == {<<>>} \cup {<<i>> : i \in Ids \cup {""}}

\* `if honeypot_id:` is false for None and for the empty string
Truthy(arg) == arg # <<>> /\ arg[1] # ""

\* get_honeypot_status(honeypot_id=None): one snapshot, None, or the mapping
\* of every registered id to its snapshot
get_honeypot_status(hp, hs, arg) ==
  IF Truthy(arg)
    THEN LET r == get_honeypot(hp, arg[1])
         IN IF r # NoRef
              THEN [kind |-> "snapshot", snap |-> get_status(hs[r]),
                    map |-> [i \in {} |-> NoSnapshot]]
              ELSE [kind |-> "none", snap |-> NoSnapshot,
                    map |-> [i \in {} |-> NoSnapshot]]
    ELSE [kind |-> "mapping", snap |-> NoSnapshot,
          map |-> [i \in {j \in DOMAIN hp : hp[j] # NoRef} |-> get_status(hs[hp[i]])]]

GetHoneypotStatus(arg) ==
  /\ lastOp' = Returned("get_honeypot_status", IF arg = <<>> THEN "-" ELSE arg[1],
                        get_honeypot_status(honeypots, heap, arg).kind, "-")
  /\ UNCHANGED <<honeypots, heap, config, running, disk, calls, tasks, seq, alertDashboard, honeypotDashboard>>

\* --------------------------------------------------------- coroutine methods
\* start_honeypot / stop_honeypot once the awaited call is over: the except
\* clause logs an error and returns False, otherwise True after an info entry
AwaitResult_always_true(raises) == "true"
AwaitResult_always_false(raises) == "false"
AwaitResult_propagates(raises) == IF raises THEN "raised" ELSE "true"
AwaitResult(raises) == IF raises THEN "false" ELSE "true"
AwaitLog(raises) == IF raises THEN "error" ELSE "info"

\* start_honeypot awaiting honeypot.start() whatever the status is
StartHoneypot_always_awaits(c, id) ==
  /\ calls[c].pc = "idle"
  /\ LET r == honeypots[id]
     IN IF r = NoRef
          THEN /\ lastOp' = Returned("start_honeypot", id, "false", "warning")
               /\ UNCHANGED calls
          ELSE /\ calls' = [calls EXCEPT ![c] =
                    [op |-> "start_honeypot", id |-> id, pc |-> "await", obj |-> r]]
               /\ lastOp' = NoOp
  /\ UNCHANGED <<honeypots, heap, config, running, disk, tasks, seq, alertDashboard, honeypotDashboard>>

\* start_honeypot up to its await of honeypot.start(), or to its return
StartHoneypot(c, id) ==
  /\ calls[c].pc = "idle"
  /\ LET r == honeypots[id]
     IN IF r = NoRef
          THEN /\ lastOp' = Returned("start_honeypot", id, "false", "warning")
               /\ UNCHANGED calls
        ELSE IF heap[r].status # "Active"
          THEN /\ calls' = [calls EXCEPT ![c] =
                    [op |-> "start_honeypot", id |-> id, pc |-> "await", obj |-> r]]
               /\ lastOp' = NoOp
        ELSE /\ lastOp' = Returned("start_honeypot", id, "true", "-")
             /\ UNCHANGED calls
  /\ UNCHANGED <<honeypots, heap, config, running, disk, tasks, seq, alertDashboard, honeypotDashboard>>

\* honeypot.start() returns or raises and start_honeypot runs to its return
StartHoneypotResume(c, raises) ==
  /\ calls[c].pc = "await"
  /\ calls[c].op = "start_honeypot"
  /\ LET r == calls[c].obj
         cs2 == [calls EXCEPT ![c] = IdleCall]
     IN /\ calls' = cs2
        /\ heap' = Collect([heap EXCEPT ![r] = HandleStart(heap[r], raises)],
                           honeypots, tasks, cs2)
        /\ lastOp' = Returned("start_honeypot", calls[c].id, AwaitResult(raises),
                              AwaitLog(raises))
  /\ UNCHANGED <<honeypots, config, running, disk, tasks, seq, alertDashboard, honeypotDashboard>>

\* stop_honeypot up to its await of honeypot.stop(), or to its return
StopHoneypot(c, id) ==
  /\ calls[c].pc = "idle"
  /\ LET r == honeypots[id]
     IN IF r = NoRef
          THEN /\ lastOp' = Returned("stop_honeypot", id, "false", "warning")
               /\ UNCHANGED calls
        ELSE IF heap[r].status = "Active"
          THEN /\ calls' = [calls EXCEPT ![c] =
                    [op |-> "stop_honeypot", id |-> id, pc |-> "await", obj |-> r]]
               /\ lastOp' = NoOp
        ELSE /\ lastOp' = Returned("stop_honeypot", id, "true", "-")
             /\ UNCHANGED calls
  /\ UNCHANGED <<honeypots, heap, config, running, disk, tasks, seq, alertDashboard, honeypotDashboard>>

\* honeypot.stop() returns or raises and stop_honeypot runs to its return
StopHoneypotResume(c, raises) ==
  /\ calls[c].pc = "await"
  /\ calls[c].op = "stop_honeypot"
  /\ LET r == calls[c].obj
         cs2 == [calls EXCEPT ![c] = IdleCall]
     IN /\ calls' = cs2
        /\ heap' = Collect([heap EXCEPT ![r] = HandleStop(heap[r], raises)],
                           honeypots, tasks, cs2)
        /\ lastOp' = Returned("stop_honeypot", calls[c].id, AwaitResult(raises),
                              AwaitLog(raises))
  /\ UNCHANGED <<honeypots, config, running, disk, tasks, seq, alertDashboard, honeypotDashboard>>

\* the first loop of start_all: create_honeypot for every definition from the
\* i-th on whose id is not registered; st carries the registry and the heap
\* (CreateMissing_stops_at_failure gives up at the first definition that
\* create_honeypot does not build)
RECURSIVE CreateMissing_stops_at_failure(_, _, _, _)
CreateMissing_stops_at_failure(st, cfg, i, fails) ==
  IF i > Len(cfg.honeypots) THEN st
  ELSE
    LET d == cfg.honeypots[i]
    IN IF st.honeypots[d.id] # NoRef
         THEN CreateMissing_stops_at_failure(st, cfg, i + 1, fails)
         ELSE LET res == create_honeypot(st.honeypots, st.heap, cfg, d.id,
                                         [type |-> d.type, ip |-> d.ip,
                                          port |-> d.port, options |-> d.options],
                                         d.id \in fails)
              IN IF res.ret = "none" THEN st
                 ELSE CreateMissing_stops_at_failure(
                        [honeypots |-> res.honeypots, heap |-> res.heap],
                        cfg, i + 1, fails)
RECURSIVE CreateMissing(_, _, _, _)
CreateMissing(st, cfg, i, fails) ==
  IF i > Len(cfg.honeypots) THEN st
  ELSE
    LET d == cfg.honeypots[i]
    IN IF st.honeypots[d.id] # NoRef
         THEN CreateMissing(st, cfg, i + 1, fails)
         ELSE LET res == create_honeypot(st.honeypots, st.heap, cfg, d.id,
                                         [type |-> d.type, ip |-> d.ip,
                                          port |-> d.port, options |-> d.options],
                                         d.id \in fails)
              IN CreateMissing([honeypots |-> res.honeypots, heap |-> res.heap],
                               cfg, i + 1, fails)

\* the heap has room for every object the first loop of start_all constructs
RECURSIVE RoomFor(_, _, _, _, _)
RoomFor(n, hp, cfg, i, fails) ==
  IF i > Len(cfg.honeypots) THEN TRUE
  ELSE
    LET d == cfg.honeypots[i]
        builds == /\ hp[d.id] = NoRef
                  /\ Upper(d.type) \in {"SSH", "WEB"}
                  /\ d.id \notin fails
    IN IF builds
         THEN n > 0 /\ RoomFor(n - 1, [hp EXCEPT ![d.id] = 1], cfg, i + 1, fails)
         ELSE RoomFor(n, hp, cfg, i + 1, fails)

\* asyncio.gather(*tasks, return_exceptions=True): done once every task has
\* settled, and its await returns the list of results
GatherDone_first_exception(own) ==
  \/ \E t \in own : t.st = "failed"
  \/ \A t \in own : t.st # "running"
GatherDone(own) == \A t \in own : t.st # "running"
GatherResult(own) == "returned"

\* start_all up to its await of gather
StartAllBody(c, fails) ==
  /\ calls[c].pc = "idle"
  /\ running' = TRUE
  /\ IF ~config.isMap
       \* self.config.get raises AttributeError out of start_all
       THEN /\ lastOp' = Returned("start_all", "-", "raised", "-")
            /\ UNCHANGED <<honeypots, heap, tasks, calls>>
       ELSE /\ RoomFor(Cardinality(FreeRefs(heap)), honeypots, config, 1, fails)
            /\ LET st == CreateMissing([honeypots |-> honeypots, heap |-> heap],
                                       config, 1, fails)
                   new == {MkTask(c, st.honeypots[id], "start") :
                             id \in {i \in Ids : st.honeypots[i] # NoRef}}
               IN /\ honeypots' = st.honeypots
                  /\ heap' = st.heap
                  /\ tasks' = tasks \cup new
                  /\ IF new = {}
                       THEN /\ lastOp' = Returned("start_all", "-", GatherResult(new),
                                                  "-")
                            /\ UNCHANGED calls
                       ELSE /\ calls' = [calls EXCEPT ![c] =
                                 [op |-> "start_all", id |-> "-", pc |-> "gather",
                                  obj |-> NoRef]]
                            /\ lastOp' = NoOp
  /\ UNCHANGED <<config, disk>>

StartAll(c, fails) == StartAllBody(c, fails) /\ UNCHANGED <<seq, alertDashboard, honeypotDashboard>>

\* the instances stop_all stops: those whose status is "Active"
StopTargets_inverted(hp, hs) ==
  {i \in Ids : hp[i] # NoRef /\ hs[hp[i]].status # "Active"}
StopTargets(hp, hs) == {i \in Ids : hp[i] # NoRef /\ hs[hp[i]].status = "Active"}

\* stop_all up to its await of gather
StopAllBody(c) ==
  /\ calls[c].pc = "idle"
  /\ running' = FALSE
  /\ LET new == {MkTask(c, honeypots[id], "stop") : id \in StopTargets(honeypots, heap)}
     IN /\ tasks' = tasks \cup new
        /\ IF new = {}
             THEN /\ lastOp' = Returned("stop_all", "-", GatherResult(new), "-")
                  /\ UNCHANGED calls
             ELSE /\ calls' = [calls EXCEPT ![c] =
                       [op |-> "stop_all", id |-> "-", pc |-> "gather", obj |-> NoRef]]
                  /\ lastOp' = NoOp
  /\ UNCHANGED <<honeypots, heap, config, disk>>

StopAll(c) == StopAllBody(c) /\ UNCHANGED <<seq, alertDashboard, honeypotDashboard>>

\* a task's honeypot.start() / honeypot.stop() returns or raises; a task of
\* gather keeps its outcome for gather, a detached one is dropped
TaskSettle(t, raises) ==
  /\ t \in tasks
  /\ t.st = "running"
  /\ LET o == IF t.kind = "start" THEN HandleStart(heap[t.obj], raises)
                                  ELSE HandleStop(heap[t.obj], raises)
         ts2 == IF t.owner = Detached THEN tasks \ {t}
                ELSE (tasks \ {t}) \cup
                       {[t EXCEPT !.st = IF raises THEN "failed" ELSE "ok"]}
     IN /\ tasks' = ts2
        /\ heap' = Collect([heap EXCEPT ![t.obj] = o], honeypots, ts2, calls)
  /\ lastOp' = NoOp
  /\ UNCHANGED <<honeypots, config, running, disk, calls, seq, alertDashboard, honeypotDashboard>>

\* gather is done: start_all / stop_all resumes and returns
BulkReturn(c) ==
  /\ calls[c].pc = "gather"
  /\ LET own == {t \in tasks : t.owner = c}
         ts2 == tasks \ own
         cs2 == [calls EXCEPT ![c] = IdleCall]
     IN /\ GatherDone(own)
        /\ tasks' = ts2
        /\ calls' = cs2
        /\ heap' = Collect(heap, honeypots, ts2, cs2)
        /\ lastOp' = Returned(calls[c].op, "-", GatherResult(own), "-")
  /\ UNCHANGED <<honeypots, config, running, disk, seq, alertDashboard, honeypotDashboard>>

\* ------------------------------------------------------------ specification
\* single-instance calls of concurrent callers on a default-constructed manager
Next ==
  \/ \E id \in Ids, a \in ArgSets, ctorRaises \in BOOLEAN :
       CreateHoneypot(id, a, ctorRaises)
  \/ \E id \in Ids, inLoop \in BOOLEAN : RemoveHoneypot(id, inLoop)
  \/ \E c \in Callers, id \in Ids : StartHoneypot(c, id)
  \/ \E c \in Callers, raises \in BOOLEAN : StartHoneypotResume(c, raises)
  \/ \E c \in Callers, id \in Ids : StopHoneypot(c, id)
  \/ \E c \in Callers, raises \in BOOLEAN : StopHoneypotResume(c, raises)
  \/ \E t \in tasks, raises \in BOOLEAN : TaskSettle(t, raises)

Spec == Init /\ [][Next]_vars

\* the bulk calls of concurrent callers on a default-constructed manager
NextBulk ==
  \/ \E c \in Callers, fails \in SUBSET Ids : StartAll(c, fails)
  \/ \E c \in Callers : StopAll(c)
  \/ \E t \in tasks, raises \in BOOLEAN : TaskSettle(t, raises)
  \/ \E c \in Callers : BulkReturn(c)

SpecBulk == Init /\ [][NextBulk]_vars

\* the configuration store: the registry operations with load and save
NextStore ==
  \/ \E id \in Ids, a \in ArgSets, ctorRaises \in BOOLEAN :
       CreateHoneypot(id, a, ctorRaises)
  \/ \E id \in Ids, inLoop \in BOOLEAN : RemoveHoneypot(id, inLoop)
  \/ \E f \in ReadOnlyFiles \cup {disk} : LoadConfig(f)
  \/ \E outcome \in SaveOutcomes : SaveConfig(outcome)

SpecStore == Init /\ [][NextStore]_vars

\* the same operations on a manager constructed from a configuration file
SpecFile == InitFrom /\ [][NextStore]_vars

\* a manager constructed from a configuration file, whose configuration is
\* loaded, edited and brought up by start_all
NextLoaded ==
  \/ \E f \in ReadOnlyFiles : LoadConfig(f)
  \/ \E id \in Ids, a \in ArgSets, ctorRaises \in BOOLEAN :
       CreateHoneypot(id, a, ctorRaises)
  \/ \E fails \in SUBSET Ids : StartAll(1, fails)
  \/ \E t \in tasks, raises \in BOOLEAN : TaskSettle(t, raises)
  \/ BulkReturn(1)

SpecLoaded == InitFrom /\ [][NextLoaded]_vars

\* one caller's sequential start_honeypot / stop_honeypot calls
NextSeq ==
  \/ \E id \in Ids, a \in ArgSets, ctorRaises \in BOOLEAN :
       CreateHoneypot(id, a, ctorRaises)
  \/ \E id \in Ids : StartHoneypot(1, id)
  \/ \E raises \in BOOLEAN : StartHoneypotResume(1, raises)
  \/ \E id \in Ids : StopHoneypot(1, id)
  \/ \E raises \in BOOLEAN : StopHoneypotResume(1, raises)

SpecSeq == Init /\ [][NextSeq]_vars

\* one caller's script: instances are created and started one by one, then
\* "await start_all(); await stop_all()" runs with nothing else in flight
Registered == {i \in Ids : honeypots[i] # NoRef}

ScriptCreate(id, a, ctorRaises) ==
  seq.phase = "setup" /\ CreateHoneypot(id, a, ctorRaises)

ScriptStart(id) == seq.phase = "setup" /\ StartHoneypot(1, id)

ScriptStartResume(raises) == seq.phase = "setup" /\ StartHoneypotResume(1, raises)

ScriptStartAll(fails) ==
  /\ seq.phase = "setup"
  /\ StartAllBody(1, fails)
  /\ seq' = [phase |-> "start_all", present |-> Registered, fails |-> fails]
  /\ UNCHANGED <<alertDashboard, honeypotDashboard>>

ScriptStopAll ==
  /\ seq.phase = "start_all"
  /\ StopAllBody(1)
  /\ seq' = [seq EXCEPT !.phase = "stop_all"]
  /\ UNCHANGED <<alertDashboard, honeypotDashboard>>

NextScript ==
  \/ \E id \in Ids, a \in ArgSets, ctorRaises \in BOOLEAN : ScriptCreate(id, a, ctorRaises)
  \/ \E id \in Ids : ScriptStart(id)
  \/ \E raises \in BOOLEAN : ScriptStartResume(raises)
  \/ \E fails \in SUBSET Ids : ScriptStartAll(fails)
  \/ ScriptStopAll
  \/ \E t \in tasks, raises \in BOOLEAN : TaskSettle(t, raises)
  \/ BulkReturn(1)
  \/ \E arg \in StatusArgs : GetHoneypotStatus(arg)

SpecScript == Init /\ [][NextScript]_vars

\* the script is over: stop_all has returned
ScriptDone == seq.phase = "stop_all" /\ calls[1].pc = "idle"

\* ------------------------------------------------------------- the frontend
\* AlertDashboard ---------------------------------------------------------
AlertNames == {"alert-1", "alert-2"}

\* response.data of GET /alerts when it is an array
AlertLists == SeqsUpTo(AlertNames, MaxAlerts)

\* how a call of fetchAlerts ends: a response whose data is an array or is
\* not one, or axios.get throws (timeout or abort, a status outside 2xx, no
\* response, a failure while setting the request up)
FetchKinds == {"notArray", "timeout", "status", "noResponse", "setup"}
AlertOutcomes ==
  {[kind |-> "array", data |-> l] : l \in AlertLists}
    \cup {[kind |-> k, data |-> <<>>] : k \in FetchKinds}

\* the argument of setError in fetchAlerts
ErrorMessage(kind) ==
  CASE kind = "notArray" -> "Received invalid data format from server"
    [] kind = "timeout" -> "Request timed out"
    [] kind = "status" -> "Server error"
    [] kind = "noResponse" -> "No response from server"
    [] OTHER -> "Error"

\* fetchAlerts up to its await of axios.get
fetchAlerts_request(s) == [s EXCEPT !.loading = TRUE, !.pending = @ + 1]

\* fetchAlerts from its await on: the try block after the response, or the
\* catch block, then the finally block
fetchAlerts_response(s, out) ==
  LET refreshed == IF out.kind \in {"array", "notArray"}
                     THEN [s EXCEPT !.lastRefresh = "time"]
                     ELSE s
      settled == IF out.kind = "array"
                   THEN [refreshed EXCEPT !.alerts = out.data]
                   ELSE [refreshed EXCEPT !.error = ErrorMessage(out.kind)]
  IN [settled EXCEPT !.loading = FALSE, !.pending = @ - 1]

\* the mount effect and every tick of setInterval(fetchAlerts, 10000)
FetchAlerts ==
  /\ alertDashboard.pending < MaxFetches
  /\ alertDashboard' = fetchAlerts_request(alertDashboard)
  /\ UNCHANGED <<manager, honeypotDashboard>>

\* a click on "Refresh Alerts", which is disabled while loading
HandleRefresh ==
  /\ ~alertDashboard.loading
  /\ alertDashboard.pending < MaxFetches
  /\ alertDashboard' = fetchAlerts_request(alertDashboard)
  /\ UNCHANGED <<manager, honeypotDashboard>>

\* a call of fetchAlerts resumes from its await and runs to its end
FetchAlertsDone(out) ==
  /\ alertDashboard.pending > 0
  /\ alertDashboard' = fetchAlerts_response(alertDashboard, out)
  /\ UNCHANGED <<manager, honeypotDashboard>>

\* what AlertDashboard renders below its header: loading ? spinner : error ?
\* the error alert : the alert table
AlertView(s) ==
  IF s.loading THEN [shows |-> "spinner", alerts |-> <<>>]
  ELSE IF s.error # Null THEN [shows |-> "error", alerts |-> <<>>]
  ELSE [shows |-> "list", alerts |-> s.alerts]

NextAlerts ==
  \/ FetchAlerts
  \/ HandleRefresh
  \/ \E out \in AlertOutcomes : FetchAlertsDone(out)

SpecAlerts == Init /\ [][NextAlerts]_vars

\* HoneypotDashboard ------------------------------------------------------
Statuses == {"Active", "Inactive"}

mockHoneypots ==
  << [id |-> "ssh-honeypot-1", status |-> "Active"],
     [id |-> "web-honeypot-1", status |-> "Active"],
     [id |-> "ftp-honeypot-1", status |-> "Inactive"],
     [id |-> "smb-honeypot-1", status |-> "Active"] >>

\* response.data of GET /honeypots as Object.entries lists it: one
\* <<key, status>> per honeypot, no key twice
HoneypotResponses ==
  {r \in SeqsUpTo(Ids \X Statuses, Cardinality(Ids)) :
     \A i, j \in 1..Len(r) : r[i][1] = r[j][1] => i = j}

HoneypotOutcomes ==
  {[ok |-> TRUE, data |-> r] : r \in HoneypotResponses} \cup {[ok |-> FALSE, data |-> <<>>]}

\* Object.entries(response.data).map(([id, data]) => ({id, ...data}))
Entries(r) == [i \in 1..Len(r) |-> [id |-> r[i][1], status |-> r[i][2]]]

\* fetchHoneypots up to its await of axios.get
fetchHoneypots_request(s) == [s EXCEPT !.loading = TRUE, !.pending = @ + 1]

\* fetchHoneypots from its await on: the rest of the try block, or the catch
fetchHoneypots_response(s, out) ==
  IF out.ok
    THEN [s EXCEPT !.honeypots = Entries(out.data), !.loading = FALSE, !.pending = @ - 1]
    ELSE [s EXCEPT !.error = "Failed to fetch honeypots", !.loading = FALSE,
                   !.pending = @ - 1]

\* the mount effect and every tick of setInterval(fetchHoneypots, 30000)
FetchHoneypots ==
  /\ honeypotDashboard.pending < MaxFetches
  /\ honeypotDashboard' = fetchHoneypots_request(honeypotDashboard)
  /\ UNCHANGED <<manager, alertDashboard>>

FetchHoneypotsDone(out) ==
  /\ honeypotDashboard.pending > 0
  /\ honeypotDashboard' = fetchHoneypots_response(honeypotDashboard, out)
  /\ UNCHANGED <<manager, alertDashboard>>

\* honeypots.length > 0 ? honeypots : mockHoneypots
displayHoneypots(s) == IF Len(s.honeypots) > 0 THEN s.honeypots ELSE mockHoneypots

\* the table with its switches is rendered: neither the spinner nor the error
TableShown(s) == ~s.loading /\ s.error = Null

DisplayedIds(s) == {displayHoneypots(s)[i].id : i \in 1..Len(displayHoneypots(s))}

\* hp.status === 'Active' ? 'Inactive' : 'Active'
Flip(status) == IF status = "Active" THEN "Inactive" ELSE "Active"

\* setHoneypots(prev => prev.map(hp => hp.id === id ? {...hp, status} : hp))
toggleHoneypotStatus(s, id) ==
  LET prev == s.honeypots
  IN [s EXCEPT !.honeypots =
        [i \in 1..Len(prev) |->
           IF prev[i].id = id THEN [prev[i] EXCEPT !.status = Flip(prev[i].status)]
                              ELSE prev[i]]]

\* onChange of the switch in the row of honeypot id
ToggleHoneypotStatus(id) ==
  /\ TableShown(honeypotDashboard)
  /\ id \in DisplayedIds(honeypotDashboard)
  /\ honeypotDashboard' = toggleHoneypotStatus(honeypotDashboard, id)
  /\ UNCHANGED <<manager, alertDashboard>>

NextDashboard ==
  \/ FetchHoneypots
  \/ \E out \in HoneypotOutcomes : FetchHoneypotsDone(out)
  \/ \E id \in DisplayedIds(honeypotDashboard) : ToggleHoneypotStatus(id)

SpecDashboard == Init /\ [][NextDashboard]_vars

\* ------------------------------------------------------------------- claims
Status(id) == heap[honeypots[id]].status

\* caller c is suspended in start_honeypot at its await of honeypot.start()
InStart(c) == calls[c].pc = "await" /\ calls[c].op = "start_honeypot"

\* this step is the return of caller c's awaited start_honeypot / stop_honeypot
Resumes(c) == calls[c].pc = "await" /\ calls'[c].pc = "idle"

\* C1: two concurrent start_honeypot calls for one id are never both inside
\* the instance's start(): no two callers are suspended at the await of
\* start() of the same decoy object.
C1_StartEnteredOnce ==
  \A c1, c2 \in Callers :
    (c1 # c2 /\ InStart(c1) /\ InStart(c2)) => calls[c1].obj # calls[c2].obj

\* C2: a create_honeypot call for an id that is already registered returns
\* the registered object and changes neither the registry, nor any object's
\* fields, nor the configuration, whatever arguments it passes.
C2_CreateTwiceKeepsOriginal ==
  [][(lastOp'.op = "create_honeypot" /\ honeypots[lastOp'.id] # NoRef) =>
       /\ lastOp'.ret = "obj"
       /\ lastOp'.ref = honeypots[lastOp'.id]
       /\ honeypots' = honeypots
       /\ heap' = heap
       /\ config' = config]_vars

\* a second create_honeypot for a registered id has returned, and the
\* instance it found was listening
C2_Witness ==
  /\ lastOp.op = "create_honeypot"
  /\ lastOp.log = "warning"
  /\ lastOp.ref # NoRef
  /\ heap[lastOp.ref].status = "Active"

\* C3: start_all / stop_all launch one task per target instance in a single
\* step, return only when every one of these tasks has settled, keep every
\* task of the call whatever its siblings did, and return normally even when
\* tasks failed.
C3_FanOutFanIn ==
  [][\A c \in Callers :
       LET own == {t \in tasks : t.owner = c}
           ownAfter == {t \in tasks' : t.owner = c}
       IN /\ (calls[c].pc = "idle" /\ calls'[c].pc = "gather") =>
               /\ \A t \in ownAfter : t.st = "running"
               /\ calls'[c].op = "start_all" =>
                    {t.obj : t \in ownAfter} = {honeypots'[i] : i \in Ids} \ {NoRef}
               /\ calls'[c].op = "stop_all" =>
                    {t.obj : t \in ownAfter} =
                      {honeypots[i] : i \in StopTargets(honeypots, heap)}
          /\ (calls[c].pc = "gather" /\ calls'[c].pc = "gather") =>
               /\ {t.obj : t \in ownAfter} = {t.obj : t \in own}
               /\ \A t \in own : t.st # "running" => t \in ownAfter
          /\ (calls[c].pc = "gather" /\ calls'[c].pc = "idle") =>
               /\ \A t \in own : t.st \in {"ok", "failed"}
               /\ lastOp'.op = calls[c].op
               /\ lastOp'.ret = "returned"]_vars

\* a start_all is waiting for a running start while a sibling start has
\* failed and another has succeeded
C3_Witness ==
  \E c \in Callers :
    /\ calls[c].pc = "gather"
    /\ calls[c].op = "start_all"
    /\ \E t1, t2 \in tasks :
         /\ t1.owner = c /\ t1.st = "failed"
         /\ t2.owner = c /\ t2.st = "ok"

\* C4: every registered instance has exactly one definition of its id in the
\* configuration store.
C4_RegistryHasDefinition ==
  \A id \in Ids :
    honeypots[id] # NoRef =>
      Cardinality({i \in 1..Len(config.honeypots) : config.honeypots[i].id = id}) = 1

\* C5 as stated: once "await start_all(); await stop_all()" is over, every
\* instance registered when it began is Inactive.
C5_AllInactiveAfterScript ==
  ScriptDone => \A id \in seq.present : Status(id) = "Inactive"

\* C5 amended: when stop_all returns at the end of the script, every instance
\* registered when the script began is Inactive unless its stop() raised.
C5_InactiveUnlessStopFailed ==
  [][(seq'.phase = "stop_all" /\ ~ScriptDone /\ ScriptDone') =>
       \A id \in seq'.present :
         \/ heap'[honeypots'[id]].status = "Inactive"
         \/ \E t \in tasks : /\ t.owner = 1 /\ t.kind = "stop" /\ t.st = "failed"
                             /\ t.obj = honeypots[id]]_vars

\* the script found two instances, start_all left both Active and both stops
\* of stop_all have succeeded: stop_all is about to return
C5_Witness ==
  /\ seq.phase = "stop_all"
  /\ calls[1].pc = "gather"
  /\ Cardinality(seq.present) = 2
  /\ \A id \in seq.present :
       /\ Status(id) = "Inactive"
       /\ [owner |-> 1, obj |-> honeypots[id], kind |-> "stop", st |-> "ok"] \in tasks

\* C6 as stated: after each of one caller's sequential calls on a registered
\* id the instance is in the call's target state.
C6_StateIsTarget ==
  [][(lastOp'.op \in {"start_honeypot", "stop_honeypot"}
        /\ honeypots[lastOp'.id] # NoRef) =>
       heap'[honeypots'[lastOp'.id]].status =
         IF lastOp'.op = "start_honeypot" THEN "Active" ELSE "Inactive"]_vars

\* C6 amended: after each sequential call that returns True the instance is
\* in the call's target state, and a call that returns False because the
\* underlying start()/stop() raised leaves the state it found.
C6_StateIsTargetOnSuccess ==
  [][(lastOp'.op \in {"start_honeypot", "stop_honeypot"}
        /\ honeypots[lastOp'.id] # NoRef) =>
       /\ lastOp'.ret = "true" =>
            heap'[honeypots'[lastOp'.id]].status =
              IF lastOp'.op = "start_honeypot" THEN "Active" ELSE "Inactive"
       /\ lastOp'.ret # "true" =>
            /\ lastOp'.ret = "false"
            /\ heap'[honeypots'[lastOp'.id]].status = Status(lastOp'.id)]_vars

\* a stop_honeypot has stopped an instance that an earlier start had started
C6_Witness ==
  /\ lastOp.op = "stop_honeypot"
  /\ lastOp.ret = "true"
  /\ lastOp.log = "info"
  /\ Status(lastOp.id) = "Inactive"

\* C7: when a caller's awaited start() or stop() returns or raises, every
\* other caller's suspended call and the object it is waiting on are left as
\* they were, and the returning call reports True exactly when its own
\* start()/stop() did not raise, with a started instance Active.
C7_SiblingIsolated ==
  [][\A c \in Callers :
       Resumes(c) =>
         /\ \A d \in Callers \ {c} :
              /\ calls'[d] = calls[d]
              /\ (calls[d].pc = "await" /\ calls[d].obj # calls[c].obj) =>
                   heap'[calls[d].obj] = heap[calls[d].obj]
         /\ lastOp'.log = "info" =>
              /\ lastOp'.ret = "true"
              /\ (calls[c].op = "start_honeypot"
                    /\ honeypots[calls[c].id] = calls[c].obj) =>
                   heap'[calls[c].obj].status = "Active"
         /\ lastOp'.log = "error" => lastOp'.ret = "false"]_vars

\* a start_honeypot has just failed while another caller is suspended in the
\* start() of a different instance
C7_Witness ==
  /\ lastOp.op = "start_honeypot"
  /\ lastOp.ret = "false"
  /\ lastOp.log = "error"
  /\ \E d \in Callers : InStart(d) /\ calls[d].id # lastOp.id

\* C8: start_honeypot and stop_honeypot return True or False, never raise:
\* False for an id that is not registered and when the awaited start()/stop()
\* raised, True otherwise.
C8_NeverRaises ==
  [][lastOp'.op \in {"start_honeypot", "stop_honeypot"} =>
       /\ lastOp'.ret \in {"true", "false"}
       /\ IF \E c \in Callers : Resumes(c)
            THEN lastOp'.ret = "false" <=> lastOp'.log = "error"
            ELSE lastOp'.ret = "false" <=> honeypots[lastOp'.id] = NoRef]_vars

\* a start_honeypot whose start() raised has returned False
C8_Witness ==
  /\ lastOp.op = "start_honeypot"
  /\ lastOp.ret = "false"
  /\ lastOp.log = "error"
  /\ honeypots[lastOp.id] # NoRef

\* C9: remove_honeypot for an id that is not registered returns False and
\* leaves the registry, the objects, the tasks and the configuration as they
\* were.
C9_RemoveUnknown ==
  [][(lastOp'.op = "remove_honeypot" /\ honeypots[lastOp'.id] = NoRef) =>
       /\ lastOp'.ret = "false"
       /\ honeypots' = honeypots
       /\ heap' = heap
       /\ tasks' = tasks
       /\ config' = config]_vars

\* remove_honeypot has refused an id that is not registered but has a
\* definition in the configuration
C9_Witness ==
  /\ lastOp.op = "remove_honeypot"
  /\ lastOp.ret = "false"
  /\ lastOp.log = "warning"
  /\ honeypots[lastOp.id] = NoRef
  /\ HasDef(config, lastOp.id)

\* C10: remove_honeypot for a registered id returns True and leaves the id in
\* neither the registry nor the configuration, whether or not an event loop
\* is running.
C10_RemoveRegistered ==
  [][(lastOp'.op = "remove_honeypot" /\ honeypots[lastOp'.id] # NoRef) =>
       /\ lastOp'.ret = "true"
       /\ honeypots'[lastOp'.id] = NoRef
       /\ ~HasDef(config', lastOp'.id)]_vars

\* the type has no constructor in create_honeypot: Upper models type.upper()
Unsupported(a) == Upper(a.type) \notin {"SSH", "WEB"}

\* C11 as stated: create_honeypot with a type other than SSH or WEB (compared
\* case-insensitively) returns None and leaves the registry and the
\* configuration unchanged.
C11_UnsupportedTypeFails ==
  [][\A id \in Ids, a \in ArgSets, ctorRaises \in BOOLEAN :
       (Unsupported(a) /\ CreateHoneypot(id, a, ctorRaises)) =>
         /\ lastOp'.ret = "none"
         /\ honeypots' = honeypots
         /\ config' = config]_vars

\* C11 amended: create_honeypot with a type other than SSH or WEB returns
\* None when the id is not registered (for a registered id it returns the
\* registered instance, whatever the type); in both cases the registry, the
\* objects and the configuration are unchanged.
C11_UnsupportedTypeFailsUnlessRegistered ==
  [][\A id \in Ids, a \in ArgSets, ctorRaises \in BOOLEAN :
       (Unsupported(a) /\ CreateHoneypot(id, a, ctorRaises)) =>
         /\ lastOp'.ret = IF honeypots[id] = NoRef THEN "none" ELSE "obj"
         /\ honeypots[id] # NoRef => lastOp'.ref = honeypots[id]
         /\ honeypots' = honeypots
         /\ heap' = heap
         /\ config' = config]_vars

\* create_honeypot has just refused an unsupported type for an id that is not
\* registered, on a manager that holds another instance and definitions
C11_Witness ==
  /\ lastOp.op = "create_honeypot"
  /\ lastOp.ret = "none"
  /\ lastOp.log = "unsupported"
  /\ honeypots[lastOp.id] = NoRef
  /\ \E i \in Ids : honeypots[i] # NoRef
  /\ config.isMap /\ Len(config.honeypots) > 0

\* this step is the return of the start_all of a script that began on a
\* manager nothing was registered with
FreshStartAllReturns == lastOp'.op = "start_all" /\ seq'.present = {}

\* the configuration holds exactly the two built-in definitions, the SSH one
\* on port sshPort and the Web one on port webPort
TwoDefinitions(cfg, sshPort, webPort) ==
  /\ cfg.isMap
  /\ Len(cfg.honeypots) = 2
  /\ cfg.honeypots[1].id = "ssh-honeypot-1"
  /\ Upper(cfg.honeypots[1].type) = "SSH"
  /\ cfg.honeypots[1].port = sshPort
  /\ cfg.honeypots[2].id = "web-honeypot-1"
  /\ Upper(cfg.honeypots[2].type) = "WEB"
  /\ cfg.honeypots[2].port = webPort

\* C12 as stated: a manager built without a configuration file holds exactly
\* the definitions "ssh-honeypot-1" (SSH, port 22) and "web-honeypot-1" (WEB,
\* port 80); when its start_all() returns both are registered and Active and
\* get_honeypot_status() has exactly two entries.
C12_FreshDefaults ==
  [][FreshStartAllReturns =>
       /\ TwoDefinitions(config', 22, 80)
       /\ \A id \in Ids :
            honeypots'[id] # NoRef /\ heap'[honeypots'[id]].status = "Active"
       /\ LET res == get_honeypot_status(honeypots', heap', <<>>)
          IN res.kind = "mapping" /\ Cardinality(DOMAIN res.map) = 2]_vars

\* C12 amended: the two definitions are on ports 2222 and 8080; when
\* start_all() returns, each of the two ids whose constructor did not raise
\* is registered, and Active unless its start() raised, and
\* get_honeypot_status() has exactly one entry per registered id, each
\* reporting the instance's status.
C12_FreshDefaults2222And8080 ==
  [][FreshStartAllReturns =>
       /\ TwoDefinitions(config', 2222, 8080)
       /\ \A id \in Ids :
            IF id \in seq'.fails
              THEN honeypots'[id] = NoRef
              ELSE /\ honeypots'[id] # NoRef
                   /\ \/ heap'[honeypots'[id]].status = "Active"
                      \/ [owner |-> 1, obj |-> honeypots'[id], kind |-> "start",
                          st |-> "failed"] \in tasks
       /\ LET res == get_honeypot_status(honeypots', heap', <<>>)
          IN /\ res.kind = "mapping"
             /\ DOMAIN res.map = Ids \ seq'.fails
             /\ \A id \in DOMAIN res.map :
                  /\ res.map[id].id = id
                  /\ res.map[id].status = heap'[honeypots'[id]].status]_vars

\* start_all has returned on a manager that was fresh, no constructor and
\* no start() raised: both built-in instances are registered and Active
C12_Witness ==
  /\ lastOp.op = "start_all"
  /\ seq.phase = "start_all"
  /\ seq.present = {}
  /\ seq.fails = {}
  /\ \A id \in Ids : honeypots[id] # NoRef /\ Status(id) = "Active"
  /\ Cardinality(DOMAIN get_honeypot_status(honeypots, heap, <<>>).map) = 2

\* C13: when load_config fails (the file cannot be opened or parsed), the
\* configuration afterwards is the mapping with an empty "honeypots" list,
\* whatever it held before; the registry is not touched.
C13_FailedLoadLeavesEmptySet ==
  [][(lastOp'.op = "load_config" /\ lastOp'.log = "error") =>
       /\ config'.isMap
       /\ config'.honeypots = <<>>
       /\ honeypots' = honeypots]_vars

\* load_config has just failed on a manager with a registered instance and
\* left no definition
C13_Witness ==
  /\ lastOp.op = "load_config"
  /\ lastOp.log = "error"
  /\ config = EmptyConfig
  /\ \E id \in Ids : honeypots[id] # NoRef

\* no method has returned yet: the manager is as __init__ left it (every
\* action of SpecFile is a returning call)
JustConstructed == lastOp = NoOp

\* C14: a manager constructed with a configuration file that is absent, or
\* that exists but cannot be parsed, holds the two built-in definitions.
C14_ConstructorFallsBackToDefaults ==
  (JustConstructed /\ disk.kind \in {"absent", "garbage"}) => config = DefaultConfig

\* C15: when save_config fails, at open() or while the document is written,
\* a document the file held before is still there, and self.config is
\* unchanged.
C15_FailedSaveChangesNothing ==
  [][(lastOp'.op = "save_config" /\ lastOp'.log = "error" /\ disk.top = "mapping") =>
       /\ disk' = disk
       /\ config' = config]_vars

C17_StatusByIdOrAll ==
  lastOp.op = "get_honeypot_status" =>
    IF lastOp.id # "-"
      THEN LET res == get_honeypot_status(honeypots, heap, <<lastOp.id>>)
           IN IF get_honeypot(honeypots, lastOp.id) # NoRef
                THEN /\ lastOp.ret = "snapshot"
                     /\ res.snap = get_status(heap[honeypots[lastOp.id]])
                ELSE lastOp.ret = "none"
      ELSE LET res == get_honeypot_status(honeypots, heap, <<>>)
           IN /\ lastOp.ret = "mapping"
              /\ DOMAIN res.map = Registered
              /\ \A id \in Registered : res.map[id] = get_status(heap[honeypots[id]])

\* C18: start_all wraps honeypot.start() in a task only for instances that
\* are Inactive: no task that starts running in a step calls start() of an
\* object that is Active.
C18_StartAllStartsOnlyInactive ==
  [][\A t \in tasks' \ tasks :
       (t.kind = "start" /\ t.st = "running") => heap'[t.obj].status = "Inactive"]_vars

\* C19: no decoy is Active without an entry in the registry, also when
\* remove_honeypot runs while a start of the same id is in flight: at the
\* step where a start() awaited by start_honeypot succeeds, which turns the
\* decoy Active, the decoy is registered.
C19_ActiveDecoyIsRegistered ==
  [][\A c \in Callers :
       (Resumes(c) /\ calls[c].op = "start_honeypot" /\ lastOp'.ret = "true") =>
         \E id \in Ids : honeypots'[id] = calls[c].obj]_vars

\* the number of definitions the configuration holds for an id
DefCount(cfg, id) ==
  Cardinality({i \in 1..Len(cfg.honeypots) : cfg.honeypots[i].id = id})

\* C20: a create_honeypot that built an instance registers it with status
\* Inactive and appends one definition with the instance's id, address,
\* port and options exactly when the configuration had none for the id;
\* otherwise the configuration is unchanged. No create_honeypot call raises
\* the number of definitions of any id above one.
C20_CreateAppendsDefinitionOnce ==
  [][lastOp'.op = "create_honeypot" =>
       /\ \A id \in Ids :
            DefCount(config', id) <= IF DefCount(config, id) = 0 THEN 1
                                     ELSE DefCount(config, id)
       /\ (lastOp'.ret = "obj" /\ lastOp'.log = "info") =>
            LET id == lastOp'.id
                r == lastOp'.ref
                n == Len(config.honeypots)
            IN /\ honeypots[id] = NoRef
               /\ honeypots'[id] = r
               /\ heap'[r].id = id
               /\ heap'[r].status = "Inactive"
               /\ IF HasDef(config, id)
                    THEN config' = config
                    ELSE /\ Len(config'.honeypots) = n + 1
                         /\ SubSeq(config'.honeypots, 1, n) = config.honeypots
                         /\ config'.honeypots[n + 1].id = id
                         /\ Upper(config'.honeypots[n + 1].type) = heap'[r].cls
                         /\ config'.honeypots[n + 1].ip = heap'[r].ip
                         /\ config'.honeypots[n + 1].port = heap'[r].port
                         /\ config'.honeypots[n + 1].options = heap'[r].options]_vars

\* create_honeypot has just built "ssh-honeypot-1" after its definition had
\* been removed, and appended the definition behind the one of
\* "web-honeypot-1"; nothing was ever saved to or loaded from the file
C20_Witness ==
  /\ lastOp.op = "create_honeypot"
  /\ lastOp.ret = "obj"
  /\ lastOp.log = "info"
  /\ lastOp.id = "ssh-honeypot-1"
  /\ disk = Absent
  /\ config = MkConfig(<<MkDef("web-honeypot-1", WebArgs),
                         MkDef("ssh-honeypot-1", SshArgs)>>)
  /\ Status("ssh-honeypot-1") = "Inactive"

\* the definition's constructor exists and does not raise in this start_all
Buildable(d, fails) == Upper(d.type) \in {"SSH", "WEB"} /\ d.id \notin fails

\* C21: when start_all has run its loops over a configuration that is a
\* mapping, every definition with a supported type whose constructor did not
\* raise has an instance in the registry with a start task of this call;
\* definitions with an unsupported type or a raising constructor are skipped,
\* instances registered before stay, and start_all does not raise.
C21_StartAllSkipsFailingDefinitions ==
  [][\A fails \in SUBSET Ids :
       (config.isMap /\ StartAll(1, fails)) =>
         /\ lastOp'.ret # "raised"
         /\ \A i \in 1..Len(config.honeypots) :
              LET d == config.honeypots[i]
              IN IF Buildable(d, fails) \/ honeypots[d.id] # NoRef
                   THEN /\ honeypots'[d.id] # NoRef
                        /\ MkTask(1, honeypots'[d.id], "start") \in tasks'
                   ELSE \/ honeypots'[d.id] = NoRef
                        \/ \E j \in 1..Len(config.honeypots) :
                             /\ config.honeypots[j].id = d.id
                             /\ Buildable(config.honeypots[j], fails)
         /\ \A id \in Ids : honeypots[id] # NoRef => honeypots'[id] = honeypots[id]]_vars

\* start_all is suspended in gather after it built and started the instance
\* of the first definition and skipped the second one, whose type is not
\* supported
C21_Witness ==
  /\ calls[1].pc = "gather"
  /\ calls[1].op = "start_all"
  /\ Len(config.honeypots) = 2
  /\ Upper(config.honeypots[2].type) \notin {"SSH", "WEB"}
  /\ honeypots[config.honeypots[2].id] = NoRef
  /\ config.honeypots[1].id # config.honeypots[2].id
  /\ honeypots[config.honeypots[1].id] # NoRef
  /\ MkTask(1, honeypots[config.honeypots[1].id], "start") \in tasks

\* C22: start_honeypot on a registered instance that is Active, and
\* stop_honeypot on one that is not Active, return True at once: the call
\* does not reach its await of start()/stop(), creates no task, and leaves
\* the objects, the registry and the configuration as they were.
C22_NoOpStartStop ==
  [][\A c \in Callers, id \in Ids :
       honeypots[id] # NoRef =>
         /\ (Status(id) = "Active" /\ StartHoneypot(c, id)) =>
              /\ lastOp' = Returned("start_honeypot", id, "true", "-")
              /\ calls' = calls
              /\ UNCHANGED <<honeypots, heap, config, tasks>>
         /\ (Status(id) # "Active" /\ StopHoneypot(c, id)) =>
              /\ lastOp' = Returned("stop_honeypot", id, "true", "-")
              /\ calls' = calls
              /\ UNCHANGED <<honeypots, heap, config, tasks>>]_vars

\* start_honeypot has just returned True for an instance that was Active
\* already, without a start() in between
C22_Witness ==
  /\ lastOp = Returned("start_honeypot", lastOp.id, "true", "-")
  /\ lastOp.id \in Ids
  /\ honeypots[lastOp.id] # NoRef
  /\ Status(lastOp.id) = "Active"
  /\ \A c \in Callers : calls[c].pc = "idle"

\* C23: in every reachable state the configuration holds at most one
\* definition per id.
C23_UniqueIds == \A id \in Ids : DefCount(config, id) <= 1

\* C24: a create_honeypot that returns None for an id that was not
\* registered leaves the id out of the registry, also when it fails while
\* recording the definition after the object was built.
C24_FailedCreateRegistersNothing ==
  [][(/\ lastOp'.op = "create_honeypot"
      /\ lastOp'.ret = "none"
      /\ honeypots[lastOp'.id] = NoRef) =>
       honeypots'[lastOp'.id] = NoRef]_vars

\* C25: once load_config has returned for a file it could open and parse
\* (an empty document and a document that is not a mapping included), the
\* start_all, create_honeypot or remove_honeypot called next does not raise.
C25_CallAfterLoadDoesNotRaise ==
  [][(/\ lastOp.op = "load_config"
      /\ lastOp.log = "info"
      /\ lastOp'.op \in {"start_all", "create_honeypot", "remove_honeypot"}) =>
       lastOp'.ret # "raised"]_vars

\* C26: in AlertDashboard, after any sequence of polling fetches, when a
\* fetch completes successfully with an array the view shows that alert
\* list: loading is false, no error of an earlier failed fetch is still set,
\* and alerts is the array just received
C26_ArrayResponseShowsAlertList ==
  [][\A l \in AlertLists :
       FetchAlertsDone([kind |-> "array", data |-> l]) =>
         /\ alertDashboard'.loading = FALSE
         /\ alertDashboard'.error = Null
         /\ alertDashboard'.alerts = l
         /\ AlertView(alertDashboard') = [shows |-> "list", alerts |-> l]]_vars

\* C27: in HoneypotDashboard, the switch of any displayed honeypot id flips
\* the displayed status of exactly that honeypot between Active and Inactive
\* and leaves every other displayed honeypot as it was, for fetched honeypots
\* and for the mock list alike
C27_ToggleFlipsDisplayedHoneypot ==
  TableShown(honeypotDashboard) =>
    \A id \in DisplayedIds(honeypotDashboard) :
      LET before == displayHoneypots(honeypotDashboard)
          after == displayHoneypots(toggleHoneypotStatus(honeypotDashboard, id))
      IN /\ Len(after) = Len(before)
         /\ \A i \in 1..Len(before) :
              after[i] = IF before[i].id = id
                           THEN [before[i] EXCEPT !.status = Flip(before[i].status)]
                           ELSE before[i]

====
